---- MODULE Spec2Model ----
(***************************************************************************)
(* Model of idn2module.c, the CPython extension module wrapping GNU        *)
(* libidn2: the four module functions utoa(), lookup(), register() and     *)
(* atou(), and setidn2errstr(), which turns a libidn2 return code into the *)
(* idn2.error exception.                                                   *)
(*                                                                         *)
(* libidn2 itself is a separate library that the module only calls.  Each  *)
(* call of it is modelled by what the module can observe: a return code,   *)
(* any value of C type int, and, exactly when that code is IDN2_OK, a      *)
(* newly allocated output string stored through the output pointer (the    *)
(* module initialises that pointer to NULL before the call).               *)
(*                                                                         *)
(* One call of a module function is one step.  The step records the order  *)
(* of the things the function did in `events`.                             *)
(***************************************************************************)
EXTENDS Integers, Sequences, FiniteSets, TLC

VARIABLES
    hashNeedsClean, \* the interpreter rejects '#' formats of an extension
                    \* compiled without PY_SSIZE_T_CLEAN (CPython 3.10-3.12)
    calls,          \* number of calls made so far
    fn,             \* the module function of the last call
    uArg,           \* how the U-label argument was passed
    aArg,           \* how the A-label argument was passed
    rc,             \* what libidn2 returned, NotCalled if it was not called
    buf,            \* the output string libidn2 allocated, NoBuffer if none
    ret,            \* the function's return value, NULL or an object
    err,            \* the interpreter's error indicator on return
    events          \* what the call did, in order

vars == <<hashNeedsClean, calls, fn, uArg, aArg, rc, buf, ret, err, events>>

----------------------------------------------------------------------------
(* Bounds *)

\* Calls made in one behaviour.
MaxCalls == 2

\* Return codes 1..MaxRaw stand for the ints that are no case of the switch.
MaxRaw == 2

----------------------------------------------------------------------------
(* Return codes *)

IDN2_OK == [enum |-> "IDN2_OK", raw |-> <<>>]

\* The case labels of the switch in setidn2errstr, in source order.
ErrorTable ==
    << <<"IDN2_MALLOC", "Memory allocation error.">>,
       <<"IDN2_NO_CODESET", "Could not determine locale string encoding format.">>,
       <<"IDN2_ICONV_FAIL", "Could not transcode locale string to UTF-8.">>,
       <<"IDN2_ENCODING_ERROR", "Unicode data encoding error.">>,
       <<"IDN2_NFC", "Error normalizing string.">>,
       <<"IDN2_PUNYCODE_BAD_INPUT", "Punycode invalid input.">>,
       <<"IDN2_PUNYCODE_BIG_OUTPUT", "Punycode output buffer too small.">>,
       <<"IDN2_PUNYCODE_OVERFLOW", "Punycode conversion would overflow.">>,
       <<"IDN2_TOO_BIG_DOMAIN", "Domain name longer than 255 characters.">>,
       <<"IDN2_TOO_BIG_LABEL", "Domain label longer than 63 characters.">>,
       <<"IDN2_INVALID_ALABEL", "Input A-label is not valid.">>,
       <<"IDN2_UALABEL_MISMATCH", "Input A-label and U-label does not match.">>,
       <<"IDN2_INVALID_FLAGS", "Invalid combination of flags.">>,
       <<"IDN2_NOT_NFC", "String is not NFC.">>,
       <<"IDN2_2HYPHEN", "String has forbidden two hyphens.">>,
       <<"IDN2_HYPHEN_STARTEND", "String has forbidden starting/ending hyphen.">>,
       <<"IDN2_LEADING_COMBINING", "String has forbidden leading combining character.">>,
       <<"IDN2_DISALLOWED", "String has disallowed character.">>,
       <<"IDN2_CONTEXTJ", "String has forbidden context-j character.">>,
       <<"IDN2_CONTEXTJ_NO_RULE", "String has context-j character with no rull.">>,
       <<"IDN2_CONTEXTO", "String has forbidden context-o character.">>,
       <<"IDN2_CONTEXTO_NO_RULE", "String has context-o character with no rull.">>,
       <<"IDN2_UNASSIGNED", "String has forbidden unassigned character.">>,
       <<"IDN2_BIDI", "String has forbidden bi-directional properties.">>,
       <<"IDN2_DOT_IN_LABEL", "Label has forbidden dot.">>,
       <<"IDN2_INVALID_TRANSITIONAL", "Label has character forbidden in transitional mode.">>,
       <<"IDN2_INVALID_NONTRANSITIONAL", "Label has character forbidden in non-transitional mode).">> >>

\* The enumerators the switch names.
CaseLabels == {ErrorTable[i][1] : i \in 1..Len(ErrorTable)}

\* A return code is IDN2_OK, one of the enumerators the switch names, or an
\* int that is none of them, kept with its numeric value.
Enumerated == {[enum |-> e, raw |-> <<>>] : e \in CaseLabels}
Unlisted == {[enum |-> "unlisted", raw |-> <<n>>] : n \in 1..MaxRaw}
ReturnCodes == {IDN2_OK} \cup Enumerated \cup Unlisted

\* rc of a call that did not reach libidn2.
NotCalled == [enum |-> "not called", raw |-> <<>>]

----------------------------------------------------------------------------
(* The error indicator *)

NoError == [type |-> "none", fmt |-> "", args |-> <<>>]

\* An exception the argument parser or the object constructor raised.
HostError(t) == [type |-> t, fmt |-> "", args |-> <<>>]

\* PyErr_SetString(Idn2Error, s) and PyErr_SetObject(Idn2Error, formatted).
\* The interpreter running out of memory while it builds the message is not
\* modelled.
Idn2Error(f, a) == [type |-> "idn2.error", fmt |-> f, args |-> a]

\* The string of the case that matches rc.
errstr(rc_) ==
    LET i == CHOOSE j \in 1..Len(ErrorTable) : ErrorTable[j][1] = rc_.enum
    IN  ErrorTable[i][2]

\* setidn2errstr with a default case that returns without raising.
setidn2errstr_silent_default(rc_) ==
    IF rc_.enum \in CaseLabels
    THEN Idn2Error(errstr(rc_), <<>>)
    ELSE NoError

\* setidn2errstr(rc): the exception it leaves in the error indicator.
setidn2errstr(rc_) ==
    IF rc_.enum \in CaseLabels
    THEN Idn2Error(errstr(rc_), <<>>)
    ELSE Idn2Error("idn2 error %d", rc_.raw)

----------------------------------------------------------------------------
(* Arguments and results *)

\* How a caller can pass an argument: None, an object of the type the format
\* unit takes, or an object of another type.
ArgKinds == {"absent", "present", "wrongtype"}

\* The strings libidn2 can produce.
Outputs == {"out1", "out2"}

NULL == "NULL"
NoBuffer == "no buffer"

\* What one call did: libidn2's return code, the string it allocated, the
\* return value, the error indicator and the order of events.
Outcome(c, b, r, e, ev) == [rc |-> c, buf |-> b, ret |-> r, err |-> e, events |-> ev]

\* return NULL after PyArg_ParseTuple failed; the parser set the exception.
ParseFailed(t) == Outcome(NotCalled, NoBuffer, NULL, HostError(t),
                          <<"parse", "raise", "return">>)

----------------------------------------------------------------------------
(* The module functions *)

\* utoa that returns as soon as the bytes object could not be built.
idn2_utoa_early_return(u, code, out, buildOk) ==
    IF u # "present" THEN ParseFailed("TypeError")
    ELSE IF code = IDN2_OK
    THEN IF buildOk
         THEN Outcome(code, out, out, NoError,
                      <<"parse", "engine", "alloc", "build", "free", "return">>)
         ELSE Outcome(code, out, NULL, HostError("MemoryError"),
                      <<"parse", "engine", "alloc", "build", "raise", "return">>)
    ELSE Outcome(code, NoBuffer, NULL, setidn2errstr(code),
                 <<"parse", "engine", "raise", "return">>)

\* utoa(str ulabel) -> bytes alabel
idn2_utoa(u, code, out, buildOk) ==
    IF u # "present" THEN ParseFailed("TypeError")
    ELSE IF code = IDN2_OK
    THEN IF buildOk
         THEN Outcome(code, out, out, NoError,
                      <<"parse", "engine", "alloc", "build", "free", "return">>)
         ELSE Outcome(code, out, NULL, HostError("MemoryError"),
                      <<"parse", "engine", "alloc", "build", "raise", "free", "return">>)
    ELSE Outcome(code, NoBuffer, NULL, setidn2errstr(code),
                 <<"parse", "engine", "raise", "return">>)

\* lookup(str ulabel) -> bytes alabel
idn2_lookup(u, code, out, buildOk) ==
    IF u # "present" THEN ParseFailed("TypeError")
    ELSE IF code = IDN2_OK
    THEN IF buildOk
         THEN Outcome(code, out, out, NoError,
                      <<"parse", "engine", "alloc", "build", "free", "return">>)
         ELSE Outcome(code, out, NULL, HostError("MemoryError"),
                      <<"parse", "engine", "alloc", "build", "raise", "free", "return">>)
    ELSE Outcome(code, NoBuffer, NULL, setidn2errstr(code),
                 <<"parse", "engine", "raise", "return">>)

\* PyArg_ParseTuple(args, "zz#", ...): "z" takes a str or None.  The module
\* does not define PY_SSIZE_T_CLEAN, so an interpreter that requires it for
\* '#' fails the parse when it reaches the second unit.
ParseRegister(u, a, needsClean) ==
    IF u = "wrongtype" THEN "TypeError"
    ELSE IF needsClean THEN "SystemError"
    ELSE IF a = "wrongtype" THEN "TypeError"
    ELSE "ok"

\* register(str ulabel, bytes alabel) -> bytes rlabel
idn2_register(u, a, needsClean, code, out, buildOk) ==
    IF ParseRegister(u, a, needsClean) # "ok"
    THEN ParseFailed(ParseRegister(u, a, needsClean))
    ELSE IF u = "absent" /\ a = "absent"
    THEN Outcome(NotCalled, NoBuffer, NULL, Idn2Error("Both arguments null.", <<>>),
                 <<"parse", "raise", "return">>)
    ELSE IF code = IDN2_OK
    THEN IF buildOk
         THEN Outcome(code, out, out, NoError,
                      <<"parse", "engine", "alloc", "build", "free", "return">>)
         ELSE Outcome(code, out, NULL, HostError("MemoryError"),
                      <<"parse", "engine", "alloc", "build", "raise", "free", "return">>)
    ELSE Outcome(code, NoBuffer, NULL, setidn2errstr(code),
                 <<"parse", "engine", "raise", "return">>)

\* atou that returns NULL on an error code without raising.
idn2_atou_no_exception(a, code, out, buildOk) ==
    IF a # "present" THEN ParseFailed("TypeError")
    ELSE IF code = IDN2_OK
    THEN IF buildOk
         THEN Outcome(code, out, out, NoError,
                      <<"parse", "engine", "alloc", "build", "free", "return">>)
         ELSE Outcome(code, out, NULL, HostError("MemoryError"),
                      <<"parse", "engine", "alloc", "build", "raise", "free", "return">>)
    ELSE Outcome(code, NoBuffer, NULL, NoError, <<"parse", "engine", "return">>)

\* atou(bytes alabel) -> str ulabel
idn2_atou(a, code, out, buildOk) ==
    IF a # "present" THEN ParseFailed("TypeError")
    ELSE IF code = IDN2_OK
    THEN IF buildOk
         THEN Outcome(code, out, out, NoError,
                      <<"parse", "engine", "alloc", "build", "free", "return">>)
         ELSE Outcome(code, out, NULL, HostError("MemoryError"),
                      <<"parse", "engine", "alloc", "build", "raise", "free", "return">>)
    ELSE Outcome(code, NoBuffer, NULL, setidn2errstr(code),
                 <<"parse", "engine", "raise", "return">>)

----------------------------------------------------------------------------
(* The state machine: the interpreter calls the module functions *)

\* A module function returned o.
Returned(f, u, a, o) ==
    /\ calls' = calls + 1
    /\ fn' = f
    /\ uArg' = u
    /\ aArg' = a
    /\ rc' = o.rc
    /\ buf' = o.buf
    /\ ret' = o.ret
    /\ err' = o.err
    /\ events' = o.events
    /\ UNCHANGED hashNeedsClean

Utoa ==
    /\ calls < MaxCalls
    /\ \E u \in ArgKinds, code \in ReturnCodes, out \in Outputs, buildOk \in BOOLEAN :
           Returned("utoa", u, "absent", idn2_utoa(u, code, out, buildOk))

Lookup ==
    /\ calls < MaxCalls
    /\ \E u \in ArgKinds, code \in ReturnCodes, out \in Outputs, buildOk \in BOOLEAN :
           Returned("lookup", u, "absent", idn2_lookup(u, code, out, buildOk))

Register ==
    /\ calls < MaxCalls
    /\ \E u \in ArgKinds, a \in ArgKinds, code \in ReturnCodes,
          out \in Outputs, buildOk \in BOOLEAN :
           Returned("register", u, a,
                    idn2_register(u, a, hashNeedsClean, code, out, buildOk))

Atou ==
    /\ calls < MaxCalls
    /\ \E a \in ArgKinds, code \in ReturnCodes, out \in Outputs, buildOk \in BOOLEAN :
           Returned("atou", "absent", a, idn2_atou(a, code, out, buildOk))

\* PyInit_idn2 has run: the module and idn2.error exist, nothing was called.
Init ==
    /\ hashNeedsClean \in BOOLEAN
    /\ calls = 0
    /\ fn = "none"
    /\ uArg = "absent"
    /\ aArg = "absent"
    /\ rc = NotCalled
    /\ buf = NoBuffer
    /\ ret = NULL
    /\ err = NoError
    /\ events = <<>>

Next == Utoa \/ Lookup \/ Register \/ Atou

Spec == Init /\ [][Next]_vars

----------------------------------------------------------------------------
(* Properties *)

\* How often event e is in ev.
Count(ev, e) == Cardinality({i \in 1..Len(ev) : ev[i] = e})

\* The string the switch has for enumerator e.
TableString(e) ==
    LET i == CHOOSE j \in 1..Len(ErrorTable) : ErrorTable[j][1] = e
    IN  ErrorTable[i][2]

BothNull == Idn2Error("Both arguments null.", <<>>)

\* C1: register with the U-label and the A-label both absent fails with
\* the "both null" error and does not call libidn2; register with at least
\* one of the two present never gives the both-null error and calls libidn2
\* exactly once.  Stated for calls whose arguments have the types the
\* function takes.
C1_BothNullOrOneEngineCall ==
    (fn = "register" /\ uArg # "wrongtype" /\ aArg # "wrongtype") =>
        /\ (uArg = "absent" /\ aArg = "absent") =>
               (err = BothNull /\ Count(events, "engine") = 0)
        /\ (uArg = "present" \/ aArg = "present") =>
               (err # BothNull /\ Count(events, "engine") = 1)

\* C3: whenever libidn2 returned a code other than IDN2_OK, the call ends
\* with exactly one exception raised, of type idn2.error; its message is the
\* table's string for an enumerator the switch names, and the fallback
\* format with the number of the code for any other code.
C3_ErrorCodeRaisesTableMessage ==
    (rc # NotCalled /\ rc # IDN2_OK) =>
        /\ err.type = "idn2.error"
        /\ Count(events, "raise") = 1
        /\ rc.enum \in CaseLabels =>
               (err.fmt = TableString(rc.enum) /\ err.args = <<>>)
        /\ rc.enum \notin CaseLabels =>
               (err.fmt = "idn2 error %d" /\ err.args = rc.raw /\ Len(rc.raw) = 1)

\* C3 witness: libidn2 returned a code the switch does not name and the
\* fallback message carries its number.
C3_Witness ==
    /\ rc.enum = "unlisted"
    /\ err = Idn2Error("idn2 error %d", rc.raw)

\* C4: a call ends either with a value returned and no error set, and then
\* libidn2 returned IDN2_OK and the value is the string it produced, or with
\* an error set and no value returned; a code other than IDN2_OK always ends
\* the second way.
C4_ValueXorError ==
    fn # "none" =>
        /\ \/ (ret # NULL /\ err = NoError /\ rc = IDN2_OK /\ ret = buf)
           \/ (ret = NULL /\ err # NoError)
        /\ (rc # NotCalled /\ rc # IDN2_OK) => (ret = NULL /\ err # NoError)

\* C4 witness: a conversion succeeded and its output was returned.
C4_Witness ==
    /\ fn = "atou"
    /\ rc = IDN2_OK
    /\ ret = buf
    /\ ret \in Outputs
    /\ err = NoError

\* C9: when a call returns, every string libidn2 allocated has been freed
\* exactly once, and at no point of the call had more strings been freed
\* than allocated; a call that did not get IDN2_OK allocated none.
C9_BufferReleasedOnce ==
    /\ Count(events, "free") = Count(events, "alloc")
    /\ Count(events, "alloc") <= 1
    /\ \A n \in 0..Len(events) :
           Count(SubSeq(events, 1, n), "free") <= Count(SubSeq(events, 1, n), "alloc")
    /\ (Count(events, "alloc") = 1) <=> (buf # NoBuffer)

\* C9 witness: libidn2 allocated the output, building the bytes object
\* failed, and the output was freed before the return.
C9_Witness ==
    /\ fn = "utoa"
    /\ rc = IDN2_OK
    /\ err = HostError("MemoryError")
    /\ Count(events, "free") = 1

====
